---- MODULE Spec2Model ----
(***************************************************************************)
(* A model of src/tx.py: class Transaction, which builds, signs and        *)
(* broadcasts a one-input, two-output pay-to-public-key-hash transaction.  *)
(*                                                                         *)
(* Representation.  A Python bytes object is a sequence of numbers 0..255. *)
(* A Python hex string (the type of every serialisation in tx.py) is a     *)
(* sequence of hex digits 0..15, two per byte.  hexify and unhexify        *)
(* convert between the two.                                                *)
(*                                                                         *)
(* Scaling.  TLC's integers are 32 bits wide, so the 256-bit group of      *)
(* SECP256k1 and the 53-bit significand of a Python float are replaced by  *)
(* a group of prime order CurveOrder and a float of MantissaBits           *)
(* significant bits.  The pair is chosen to keep the one arithmetic fact   *)
(* of the real pair that signTx depends on: the order lies just below a    *)
(* power of two, and order/2, computed in floating point, rounds UP to     *)
(* that power of two halved (for SECP256k1, N / 2 == 2.0 ** 255).          *)
(* The 32-byte SHA-256 digest is scaled to one byte.                       *)
(***************************************************************************)
EXTENDS Integers, Sequences, FiniteSets, TLC

\* ------------------------------------------------------------------ bounds

\* createOutputs is called with balance, value, fee of 0..MaxAmount units.
MaxAmount == 1
\* send resolves the seed host to 1..MaxPeers addresses.
MaxPeers == 2
\* makeScriptPubKey is called with hashes of up to HashLen + MaxExtra bytes.
MaxExtra == 2

\* --------------------------------------------------------- program numbers

\* ecdsa.SECP256k1.order, scaled (see Scaling above).
CurveOrder == 13
\* Significant bits of the float that N / 2 produces, scaled.
MantissaBits == 1
\* The generator of the group, an element of 1..CurveOrder-1.
Generator == 2
\* The spender's private scalar, org.priv_key.
OrgPrivKey == 5
\* self.VERSION
VERSION == 1
\* The unit of the amounts, in satoshi: btcToSatoshi(0.00001).
AmountUnit == 1000
\* Length in bytes of a public-key hash (hash160).
HashLen == 20
\* Length in bytes of a previous-transaction id.
TxidLen == 32
\* The address '222.237.76.118' that send assigns to peer; addresses are
\* numbered, and this one is among those the seed host may resolve to.
HardcodedPeer == 1

\* ------------------------------------------------------ sequences, bytes

RECURSIVE Concat(_)
\* ''.join(seq of hex strings)
Concat(ss) == IF ss = <<>> THEN <<>> ELSE Head(ss) \o Concat(Tail(ss))

Reverse(s) == [i \in 1..Len(s) |-> s[Len(s) + 1 - i]]

\* s[a..b], empty when the range is empty or leaves s
Slice(s, a, b) == IF a > b \/ a < 1 \/ b > Len(s) THEN <<>>
                  ELSE [i \in 1..(b - a + 1) |-> s[a + i - 1]]

RECURSIVE LEBytes(_, _)
\* the n low bytes of v, least significant first
LEBytes(v, n) == IF n = 0 THEN <<>> ELSE <<v % 256>> \o LEBytes(v \div 256, n - 1)

RECURSIVE LEValue(_)
\* the number a little-endian byte sequence denotes
LEValue(b) == IF b = <<>> THEN 0 ELSE Head(b) + 256 * LEValue(Tail(b))

\* utils.hexify: bytes -> hex string
hexify(b) == [i \in 1..(2 * Len(b)) |->
                IF i % 2 = 1 THEN b[(i + 1) \div 2] \div 16 ELSE b[i \div 2] % 16]

\* utils.unhexify: hex string -> bytes
unhexify(h) == [i \in 1..(Len(h) \div 2) |-> 16 * h[2 * i - 1] + h[2 * i]]

\* The variable-length integer of n, as bytes: one byte below 253, else the
\* escape byte 0xfd and two little-endian bytes.
VarInt(n) == IF n < 253 THEN <<n>> ELSE <<253>> \o LEBytes(n, 2)

\* utils.getLen: the length in bytes of a hex string, as a hex string
getLen(h) == hexify(VarInt(Len(h) \div 2))

\* utils.varstr: a byte string behind its length
varstr(b) == VarInt(Len(b)) \o b

\* utils.toLittleEndian applied to an int: four little-endian bytes, in hex
toLittleEndianInt(v) == hexify(LEBytes(v, 4))

\* utils.toLittleEndian applied to a hex string: its bytes reversed
toLittleEndianHex(h) == hexify(Reverse(unhexify(h)))

\* struct.pack('<Q', v) raises struct.error unless 0 <= v < 2^64; the upper
\* limit lies beyond the amounts of the model.
PackQRaises(v) == v < 0

\* struct.pack('<Q', v)
PackQ(v) == LEBytes(v, 8)

RECURSIVE HashRange(_, _, _)
\* A digest of s[a..b], computed by halving the range.
HashRange(s, a, b) ==
    IF a > b THEN 7
    ELSE IF a = b THEN ((s[a] + 1) * ((a % 13) + 1)) % 251
    ELSE LET m == (a + b) \div 2
         IN  (HashRange(s, a, m) * 3 + HashRange(s, m + 1, b) + 1) % 251

\* utils.sha256, scaled to a one-byte digest
sha256(s) == <<HashRange(s, 1, Len(s))>>

\* ------------------------------------------------------------ opcodes

OP_DUP == <<7, 6>>
OP_HASH160 == <<10, 9>>
OP_EQUALVERIFY == <<8, 8>>
OP_CHECKSIG == <<10, 12>>
HASH_CODE_TYPE == <<1>>

\* ------------------------------------------------------------ encoders

\* Transaction.makeScriptPubKey
makeScriptPubKey(addr) ==
    OP_DUP \o OP_HASH160 \o getLen(addr) \o addr \o OP_EQUALVERIFY \o OP_CHECKSIG

\* Transaction.makeOutput raises when struct.pack does
makeOutputRaises(data) == PackQRaises(data[1])

\* Transaction.makeOutput, data = <<value, addr>>
makeOutput(data) ==
    LET scriptPubKey == makeScriptPubKey(data[2])
        scriptPubKeySize == getLen(scriptPubKey)
    IN  hexify(PackQ(data[1])) \o scriptPubKeySize \o scriptPubKey

\* the output count byte written by makeRawTx
OutputCount == <<0, 2>>

\* Transaction.makeRawTx; outs is self.outputs
makeRawTx(txid, vout, scriptSig, outs) ==
    LET version == toLittleEndianInt(VERSION)
        lockTime == <<0, 0, 0, 0, 0, 0, 0, 0>>
        input_count == <<0, 1>>
        inputs == input_count \o toLittleEndianHex(txid) \o toLittleEndianInt(vout)
                  \o getLen(scriptSig) \o scriptSig \o <<15, 15, 15, 15, 15, 15, 15, 15>>
        outputs == OutputCount \o Concat([i \in 1..Len(outs) |-> makeOutput(outs[i])])
    IN  version \o inputs \o outputs \o lockTime

\* makeRawTx raises AttributeError when self.outputs was never assigned, and
\* struct.error when an output's value cannot be packed
makeRawTxRaises(outs) ==
    IF outs = <<>> THEN "AttributeError"
    ELSE IF \E i \in 1..Len(outs) : makeOutputRaises(outs[i]) THEN "struct.error"
    ELSE "none"

\* ------------------------------------------------------------- signer

\* The elements a nonce, a private scalar or a signature component ranges over.
Scalars == 1..(CurveOrder - 1)

\* the inverse of x modulo the (prime) group order
Inverse(x) == CHOOSE y \in Scalars : (x * y) % CurveOrder = 1

\* The x coordinate of k times the generator.  The group of the model is the
\* integers modulo CurveOrder under addition.
PointX(k) == (k * Generator) % CurveOrder

\* the public key that belongs to private scalar d
PublicKeyOf(d) == PointX(d)

\* the number a digest denotes in the signature equation
DigestNumber(digest) == digest[1] % CurveOrder

\* The (r, s) that sk.sign_digest computes from the nonce k it drew.
RawSign(d, digest, k) ==
    LET r == PointX(k)
        s == (Inverse(k) * (DigestNumber(digest) + r * d)) % CurveOrder
    IN  <<r, s>>

\* sign_digest draws another nonce when r or s comes out zero
NonceUsable(d, digest, k) == RawSign(d, digest, k)[1] # 0 /\ RawSign(d, digest, k)[2] # 0

\* vk.verify_digest: the ECDSA verification equation for public key Q
verify_digest(Q, digest, r, s) ==
    /\ r \in Scalars
    /\ s \in Scalars
    /\ LET w == Inverse(s)
           u1 == (DigestNumber(digest) * w) % CurveOrder
           u2 == (r * w) % CurveOrder
       IN  (u1 * Generator + u2 * Q) % CurveOrder = r

\* A DER INTEGER: tag 2, length, big-endian bytes, a zero byte in front when
\* the top bit is set.
DerInt(x) == IF x < 128 THEN <<2, 1, x>> ELSE <<2, 2, 0, x>>

\* util.sigencode_der: SEQUENCE { INTEGER r, INTEGER s }
sigencode_der(r, s) == <<48, Len(DerInt(r)) + Len(DerInt(s))>> \o DerInt(r) \o DerInt(s)

\* the value of the DER INTEGER that starts at position p of b
DerIntAt(b, p) == IF b[p + 1] = 1 THEN b[p + 2] ELSE 256 * b[p + 2] + b[p + 3]

\* util.sigdecode_der
sigdecode_der(b) == <<DerIntAt(b, 3), DerIntAt(b, 3 + 2 + b[4])>>

RECURSIVE Log2Floor(_)
Log2Floor(n) == IF n < 2 THEN 0 ELSE 1 + Log2Floor(n \div 2)

RECURSIVE Pow2(_)
Pow2(e) == IF e = 0 THEN 1 ELSE 2 * Pow2(e - 1)

\* Twice the float that Python's true division n / 2 returns: n / 2 rounded to
\* the nearest number of MantissaBits significant bits, ties to even.  (Twice,
\* so that the result is an integer also when n / 2 is exact and n is odd.)
TwiceTrueDivBy2(n) ==
    LET e == Log2Floor(n) - 1
    IN  IF e - MantissaBits + 1 <= 0 THEN n
        ELSE LET ulp == Pow2(e - MantissaBits + 1)
                 q == n \div (2 * ulp)
                 rem == n % (2 * ulp)
                 up == rem > ulp \/ (rem = ulp /\ q % 2 = 1)
             IN  2 * ulp * (IF up THEN q + 1 ELSE q)

\* Nby2 = N / 2, doubled
TwiceNby2 == TwiceTrueDivBy2(CurveOrder)

\* the test of the retry loop: s < Nby2
LowS(s) == 2 * s < TwiceNby2

SelfVerifiesSkipped(pub_key, digest, r, s) == TRUE

\* The self check of signTx: the signature as r || s, verified with the public
\* key the spender's wallet carries.
SelfVerifies(pub_key, digest, r, s) == verify_digest(pub_key[1], digest, r, s)

\* -------------------------------------------------------------- state

VARIABLES
    org,        \* the spender's wallet: priv_key, pub_key, pub_key_hash
    dest,       \* the recipient's wallet: pub_key_hash
    outputs,    \* self.outputs; <<>> while the attribute is not assigned
    txPayload,  \* self.txPayload; <<>> while the attribute is not assigned
    pc,         \* where the running call stands: "idle", "signTx", "send"
    req,        \* the arguments <<txid, vout>> of the last makeSignedTx
    rawTx,      \* makeSignedTx's local rawTx
    txDigest,   \* makeSignedTx's local txDigest
    txSig,      \* signTx's local txSig; <<>> for None
    signedTx,   \* what signTx returned to makeSignedTx; <<>> while it has not returned
    peers,      \* send: the entries of the shuffled list the loop has yet to visit
    attempts,   \* send: the passes of the loop made in the running call, each
                \*   [peer, target, tx]: the list entry, the address self.sock
                \*   connected to, and whether the 'tx' message was sent
    amounts,    \* the arguments <<balance, value, fee>> of the last createOutputs
    atSend,     \* <<txPayload, outputs>> as they were when the last send began
    ret         \* how the last call ended: operation, exception, argument, value

vars == <<org, dest, outputs, txPayload, pc, req, rawTx, txDigest, txSig,
          signedTx, peers, attempts, amounts, atSend, ret>>

\* ------------------------------------------------------------- inputs

\* the 20-byte hashes the two wallets carry
OrgHash == [i \in 1..HashLen |-> 17]
DestHash == [i \in 1..HashLen |-> 34]

\* the previous-transaction id makeSignedTx is called with, in display order
Txids == { hexify([i \in 1..TxidLen |-> i]) }

\* the output indexes makeSignedTx is called with
Vouts == {0, 1}

\* the amounts createOutputs is called with
Amounts == { a * AmountUnit : a \in 0..MaxAmount }

\* the hashes makeScriptPubKey is called with directly: 0 to HashLen + MaxExtra
\* bytes, all alike
AddrInputs == { hexify([i \in 1..n |-> b]) : n \in 0..(HashLen + MaxExtra), b \in {0, 51, 255} }

\* the addresses the seed host resolves to
PeerAddrs == 1..MaxPeers

RECURSIVE Injective(_)
Injective(s) == s = <<>> \/ (Head(s) \notin {s[i] : i \in 2..Len(s)} /\ Injective(Tail(s)))

\* what gethostbyname_ex returns, after random.shuffle: the addresses in any order
PeerLists == { s \in UNION { [1..n -> PeerAddrs] : n \in 0..MaxPeers } : Injective(s) }

Returned(op) == [op |-> op, exc |-> "none", arg |-> <<>>, val |-> <<>>]
Raised(op, exc) == [op |-> op, exc |-> exc, arg |-> <<>>, val |-> <<>>]

\* ---------------------------------------------------------- operations

\* Transaction.__init__ with the two wallets.  The wallet's public key is
\* whatever the Wallet object carries: the key of its private scalar, or not.
Init ==
    /\ org \in { [priv_key |-> OrgPrivKey, pub_key |-> <<Q>>, pub_key_hash |-> OrgHash] :
                 Q \in {PublicKeyOf(OrgPrivKey), PublicKeyOf(OrgPrivKey + 1)} }
    /\ dest = [pub_key_hash |-> DestHash]
    /\ outputs = <<>>
    /\ txPayload = <<>>
    /\ pc = "idle"
    /\ req = <<>>
    /\ rawTx = <<>>
    /\ txDigest = <<>>
    /\ txSig = <<>>
    /\ signedTx = <<>>
    /\ peers = <<>>
    /\ attempts = <<>>
    /\ amounts = <<>>
    /\ atSend = <<>>
    /\ ret = Returned("init")

OutputListSwapped(balance, value, fee) ==
    << <<balance - value - fee, hexify(org.pub_key_hash)>>,
       <<value, hexify(dest.pub_key_hash)>> >>

\* the list createOutputs builds
OutputList(balance, value, fee) ==
    << <<value, hexify(dest.pub_key_hash)>>,
       <<balance - value - fee, hexify(org.pub_key_hash)>> >>

\* Transaction.createOutputs
createOutputs(balance, value, fee) ==
    /\ pc = "idle"
    /\ outputs' = OutputList(balance, value, fee)
    /\ amounts' = <<balance, value, fee>>
    /\ atSend' = <<>>
    /\ ret' = Returned("createOutputs")
    /\ UNCHANGED <<org, dest, txPayload, pc, req, rawTx, txDigest, txSig,
                   signedTx, peers, attempts>>

\* A direct call of Transaction.makeScriptPubKey.
callMakeScriptPubKey(addr) ==
    /\ pc = "idle"
    /\ ret' = [op |-> "makeScriptPubKey", exc |-> "none", arg |-> addr,
               val |-> makeScriptPubKey(addr)]
    /\ atSend' = <<>>
    /\ UNCHANGED <<org, dest, outputs, txPayload, pc, req, rawTx, txDigest,
                   txSig, signedTx, peers, attempts, amounts>>

SigHashTemplateOtherIndex(txid, vout, outs) ==
    makeRawTx(txid, 0, makeScriptPubKey(hexify(org.pub_key_hash)), outs)

\* the serialisation makeSignedTx hashes, before the hash type is appended: the
\* transaction with the spender's locking script as its unlocking script
SigHashTemplate(txid, vout, outs) ==
    makeRawTx(txid, vout, makeScriptPubKey(hexify(org.pub_key_hash)), outs)

\* the hash type, as four little-endian bytes in hex
HashTypeTag == hexify(LEBytes(LEValue(Reverse(HASH_CODE_TYPE)), 4))

\* makeSignedTx's rawTx
SigHashPreimage(txid, vout, outs) == SigHashTemplate(txid, vout, outs) \o HashTypeTag

\* the unlocking script of the final transaction
ScriptSig(sig, pub_key) == hexify(varstr(sig)) \o hexify(varstr(pub_key))

\* the serialisation makeSignedTx stores and returns
FinalPayload(txid, vout, sig, outs) ==
    makeRawTx(txid, vout, ScriptSig(sig, org.pub_key), outs)

\* Transaction.makeSignedTx up to the call of signTx.  The first makeRawTx may
\* raise; the exception leaves makeSignedTx, and self.txPayload stays as it was.
makeSignedTx(txid, vout) ==
    /\ pc = "idle"
    /\ req' = <<txid, vout>>
    /\ txSig' = <<>>
    /\ signedTx' = <<>>
    /\ atSend' = <<>>
    /\ IF makeRawTxRaises(outputs) # "none"
       THEN /\ ret' = Raised("makeSignedTx", makeRawTxRaises(outputs))
            /\ rawTx' = <<>>
            /\ txDigest' = <<>>
            /\ pc' = "idle"
       ELSE /\ rawTx' = SigHashPreimage(txid, vout, outputs)
            /\ txDigest' = sha256(sha256(rawTx'))
            /\ pc' = "signTx"
            /\ ret' = Raised("makeSignedTx", "running")
    /\ UNCHANGED <<org, dest, outputs, txPayload, peers, attempts, amounts>>

\* One pass of the loop of signTx with the nonce k that sign_digest drew, and,
\* when the loop ends, the rest of signTx and of makeSignedTx.
signTx(k) ==
    /\ pc = "signTx"
    /\ NonceUsable(org.priv_key, txDigest, k)
    /\ LET sig == RawSign(org.priv_key, txDigest, k)
           der == sigencode_der(sig[1], sig[2])
           rs == sigdecode_der(der)
       IN  /\ txSig' = der
           /\ IF ~LowS(rs[2])
              THEN UNCHANGED <<pc, signedTx, txPayload, ret>>
              ELSE IF ~SelfVerifies(org.pub_key, txDigest, rs[1], rs[2])
              THEN /\ pc' = "idle"
                   /\ ret' = Raised("makeSignedTx", "BadSignatureError")
                   /\ UNCHANGED <<signedTx, txPayload>>
              ELSE /\ signedTx' = der \o HASH_CODE_TYPE
                   /\ txPayload' = FinalPayload(req[1], req[2], signedTx', outputs)
                   /\ pc' = "idle"
                   /\ ret' = Returned("makeSignedTx")
    /\ UNCHANGED <<org, dest, outputs, req, rawTx, txDigest, peers, attempts,
                   amounts, atSend>>

\* The address the socket of one pass of the loop connects to: peer is
\* reassigned to the literal address before the connect.
ConnectTarget(peer) == HardcodedPeer

\* Transaction.send up to the loop: the seed host is resolved (which may raise
\* socket.gaierror) and the list shuffled.  An empty list ends the call at once.
send(list) ==
    /\ pc = "idle"
    /\ atSend' = <<txPayload, outputs>>
    /\ attempts' = <<>>
    /\ IF list = <<>>
       THEN /\ ret' = Returned("send")
            /\ UNCHANGED <<pc, peers>>
       ELSE /\ pc' = "send"
            /\ peers' = list
            /\ ret' = Raised("send", "running")
    /\ UNCHANGED <<org, dest, outputs, txPayload, req, rawTx, txDigest, txSig,
                   signedTx, amounts>>

\* Transaction.send when gethostbyname_ex raises: the exception leaves send.
sendUnresolved ==
    /\ pc = "idle"
    /\ atSend' = <<txPayload, outputs>>
    /\ attempts' = <<>>
    /\ ret' = Raised("send", "OSError")
    /\ UNCHANGED <<org, dest, outputs, txPayload, pc, req, rawTx, txDigest, txSig,
                   signedTx, peers, amounts>>

\* how one pass of the loop of send can end
Outcomes == {"completed", "refused_or_reset", "reset_after_tx", "other", "other_after_tx"}

\* the pass reached the send of the 'tx' message
SentTx(outcome) == outcome \in {"completed", "reset_after_tx", "other_after_tx"}

\* send assigns self.sock and nothing else: self.txPayload after a pass of the
\* loop is what it was before.
PayloadDroppedOnError(outcome) == IF outcome = "completed" THEN txPayload ELSE <<>>

PayloadAfterAttempt(outcome) == txPayload

\* One pass of the loop of send for the next entry of the list.
\*   completed         every call of the try block returned: send returns
\*   refused_or_reset  ConnectionRefusedError or ConnectionResetError before the
\*                     'tx' message was sent: the loop goes on
\*   reset_after_tx    ConnectionResetError from the recv that follows the 'tx'
\*                     message: the loop goes on
\*   other             another exception, which leaves send; also from the
\*                     recv that follows the 'tx' message (other_after_tx)
\* Reading self.txPayload raises AttributeError while it is not assigned.
sendAttempt(outcome) ==
    /\ pc = "send"
    /\ peers # <<>>
    /\ LET noPayload == SentTx(outcome) /\ txPayload = <<>>
           leaves == noPayload \/ outcome \in {"completed", "other", "other_after_tx"}
           last == Tail(peers) = <<>>
       IN  /\ attempts' = IF leaves \/ last THEN <<>>
                          ELSE Append(attempts, [peer |-> Head(peers),
                                                 target |-> ConnectTarget(Head(peers)),
                                                 tx |-> SentTx(outcome)])
           /\ peers' = IF leaves THEN <<>> ELSE Tail(peers)
           /\ pc' = IF leaves \/ last THEN "idle" ELSE "send"
           /\ ret' = IF noPayload THEN Raised("send", "AttributeError")
                     ELSE IF outcome \in {"other", "other_after_tx"} THEN Raised("send", "OSError")
                     ELSE IF outcome = "completed" \/ last THEN Returned("send")
                     ELSE ret
    /\ txPayload' = PayloadAfterAttempt(outcome)
    /\ UNCHANGED <<org, dest, outputs, req, rawTx, txDigest, txSig,
                   signedTx, amounts, atSend>>

Next ==
    \/ \E balance \in Amounts, value \in Amounts, fee \in Amounts :
          createOutputs(balance, value, fee)
    \/ \E txid \in Txids, vout \in Vouts : makeSignedTx(txid, vout)
    \/ \E k \in Scalars : signTx(k)
    \/ \E list \in PeerLists : send(list)
    \/ sendUnresolved
    \/ \E outcome \in Outcomes : sendAttempt(outcome)

Spec == Init /\ [][Next]_vars

\* The script encoder on its own: makeScriptPubKey reads no attribute that
\* changes, so its calls are checked from the state after construction.
EncNext == \E addr \in AddrInputs : callMakeScriptPubKey(addr)

EncSpec == Init /\ [][EncNext]_vars

\* The interpreter runs the statements of a call one after another: a call
\* that has begun goes on.  Nothing makes the caller call again.
LiveSpec ==
    /\ Spec
    /\ WF_vars(\E k \in Scalars : signTx(k))
    /\ WF_vars(\E outcome \in Outcomes : sendAttempt(outcome))

\* ------------------------------------------------------------- reading back

\* a serialisation of makeRawTx without the hash type that follows it
StripTag(h) == Slice(h, 1, Len(h) - Len(HashTypeTag))

\* the pay-to-public-key-hash locking script of a hash, in bytes
P2PKH(hash) == <<118, 169, Len(hash)>> \o hash \o <<136, 172>>

\* The fields of a serialisation of makeRawTx, read back from its bytes; rest
\* is the number of bytes after the lock time.
ParseTx(h) ==
    LET b == unhexify(h)
        sp == 4 + 1 + TxidLen + 4 + 1
        sl == b[sp]
        oc == sp + sl + 4 + 1
        o1 == oc + 1
        l1 == b[o1 + 8]
        o2 == o1 + 9 + l1
        l2 == b[o2 + 8]
        lt == o2 + 9 + l2
    IN  [ version |-> LEValue(Slice(b, 1, 4)),
          input_count |-> b[5],
          txid |-> Reverse(Slice(b, 6, 5 + TxidLen)),
          vout |-> LEValue(Slice(b, 6 + TxidLen, 9 + TxidLen)),
          scriptLen |-> sl,
          script |-> Slice(b, sp + 1, sp + sl),
          sequence |-> Slice(b, sp + sl + 1, sp + sl + 4),
          output_count |-> b[oc],
          out1 |-> <<LEValue(Slice(b, o1, o1 + 7)), Slice(b, o1 + 9, o1 + 8 + l1)>>,
          out2 |-> <<LEValue(Slice(b, o2, o2 + 7)), Slice(b, o2 + 9, o2 + 8 + l2)>>,
          lockTime |-> LEValue(Slice(b, lt, lt + 3)),
          rest |-> Len(b) - (lt + 3) ]

\* ------------------------------------------------------------------ claims

\* C1: every signature signTx returns is canonical: its s is at most half the
\* group order, whatever the attempts of the retry loop produced.
C1_CanonicalS ==
    signedTx # <<>> => 2 * sigdecode_der(signedTx)[2] <= CurveOrder

C3_SignTxTerminates == (pc = "signTx") ~> (pc = "idle")

\* C4: when payment + fee > balance the build is rejected with InvalidInput
\* before anything is encoded, and no output with a negative value is stored.
C4_OverspendRejected ==
    (amounts # <<>> /\ amounts[2] + amounts[3] > amounts[1]) =>
        /\ ret.op \in {"createOutputs", "makeSignedTx"} => ret.exc = "InvalidInput"
        /\ \A i \in 1..Len(outputs) : outputs[i][1] >= 0

\* the two outputs C5 expects for the arguments of the last createOutputs
C5_Expected ==
    << <<amounts[2], P2PKH(dest.pub_key_hash)>>,
       <<amounts[1] - amounts[2] - amounts[3], P2PKH(org.pub_key_hash)>> >>

C5_InOrder(h) ==
    LET f == ParseTx(h)
    IN  /\ f.output_count = 2
        /\ f.out1 = C5_Expected[1]
        /\ f.out2 = C5_Expected[2]
        /\ f.out2[1] >= 0
        /\ f.rest = 0

\* C5: when balance >= payment + fee, every serialisation makeRawTx produces
\* after createOutputs(balance, payment, fee) carries output count 2 and exactly
\* the outputs (payment, recipient hash), (balance - payment - fee, spender
\* hash), in this order, the change not negative.
C5_FixedOutputOrder ==
    (ret.op = "makeSignedTx" /\ amounts # <<>> /\ amounts[1] >= amounts[2] + amounts[3]) =>
        /\ rawTx # <<>>
        /\ C5_InOrder(StripTag(rawTx))
        /\ ret.exc = "none" => C5_InOrder(txPayload)

\* C5's case: a transaction was built and signed whose payment is not zero.
C5_Witness ==
    /\ ret = Returned("makeSignedTx")
    /\ amounts[2] > 0
    /\ amounts[1] >= amounts[2] + amounts[3]

\* C6: within one makeSignedTx call the serialisation that is hashed (before
\* the hash type) and the final serialisation agree in every field but the
\* unlocking script and its length: the first carries the spender's locking
\* script, the second push(signature) push(public key).
C6_SameExceptScript ==
    ret = Returned("makeSignedTx") =>
        LET a == ParseTx(StripTag(rawTx))
            b == ParseTx(txPayload)
        IN  /\ [a EXCEPT !.script = <<>>, !.scriptLen = 0]
                 = [b EXCEPT !.script = <<>>, !.scriptLen = 0]
            /\ a.script = P2PKH(org.pub_key_hash)
            /\ b.script = varstr(signedTx) \o varstr(org.pub_key)
            /\ a.txid = unhexify(req[1])
            /\ a.vout = req[2]
            /\ rawTx = StripTag(rawTx) \o <<0, 1, 0, 0, 0, 0, 0, 0>>

\* C6's case: makeSignedTx returned a payload for output index 1.
C6_Witness ==
    /\ ret = Returned("makeSignedTx")
    /\ req[2] = 1
    /\ txPayload # <<>>

\* C7: the outcome of makeSignedTx(txid, vout) depends on its own request and
\* the key material alone: a call with the request of the call before it hashes
\* the same serialisation.
C7_SameRequestSamePreimage ==
    [][(pc = "idle" /\ pc' = "signTx" /\ rawTx # <<>> /\ req' = req) => rawTx' = rawTx]_vars

\* C8: send changes neither the payload nor the stored outputs, however its
\* connections end: during a send call and after it, both are what they were
\* when the call began.
C8_SendKeepsPayload ==
    (pc = "send" \/ ret.op = "send") => atSend = <<txPayload, outputs>>

\* C8's case: a payload was built, and a connection of send has failed.
C8_Witness ==
    /\ pc = "send"
    /\ attempts # <<>>
    /\ attempts[1].tx
    /\ txPayload # <<>>

\* C9: makeScriptPubKey fails with InvalidHashLength when the hash is not
\* exactly 20 bytes long.
C9_RejectsWrongLength ==
    (ret.op = "makeScriptPubKey" /\ Len(ret.arg) # 2 * HashLen) =>
        ret.exc = "InvalidHashLength"

\* C10: in one send call the entries of the shuffled list are the peers
\* attempted, each at most once, and at most one 'tx' message is sent.
C10_ListedPeersAttempted ==
    /\ \A i \in 1..Len(attempts) : attempts[i].target = attempts[i].peer
    /\ \A i, j \in 1..Len(attempts) : i # j => attempts[i].target # attempts[j].target

====
